---------------------------- MODULE Spec2Model ----------------------------
(***************************************************************************)
(* Model of src/src/b2eb/crop.py: find_content_bounds (the bounds          *)
(* detector) and process_folder (verification gate, batch cropper and     *)
(* PDF assembly).                                                          *)
(*                                                                         *)
(* Conventions.  Python's None is the empty sequence <<>> and a present    *)
(* value v of an optional is <<v>>; a 4-tuple of bounds is <<l,t,r,b>>     *)
(* (so Python's truthiness of a tuple is Len(..) > 0).  Strings are        *)
(* sequences of code points, so that str.lower, str.endswith and the       *)
(* ordering used by sorted() are computed and not assumed.                 *)
(***************************************************************************)
EXTENDS Integers, Sequences, FiniteSets

VARIABLES
    im,            \* find_content_bounds: the image passed in
    result,        \* find_content_bounds: <<>> before the call, <<r>> after
    listing,       \* os.listdir(input_folder), in the order the OS gives
    disk,          \* per file of the folder: what is stored in it
    manual_bounds, \* parameter: <<>> or <<l,t,r,b>>
    verify_idx,    \* parameter: <<>> (None) or <<i>>
    output_pdf,    \* parameter
    limit,         \* parameter: <<>> (None) or <<n>>
    pc,            \* position in process_folder
    png_files,     \* local
    first_image,   \* local: <<>> or <<name>> of the opened reference image
    bounds,        \* local: <<>> or <<l,t,r,b>>
    shown,         \* previews displayed by cropped_image.show()
    user_input,    \* <<>> until input() returns s, then <<s>>
    attempted,     \* filenames whose loop iteration has run, in order
    saved,         \* files written by cropped.save, in order
    errors,        \* filenames reported by the except branch, in order
    images,        \* local list kept for the PDF
    pdf,           \* <<>> or <<pages>>: pages handed to pdf_file.save
    outcome        \* "running", how the function returned, or the exception raised

vars == <<im, result, listing, disk, manual_bounds, verify_idx, output_pdf,
          limit, pc, png_files, first_image, bounds, shown, user_input,
          attempted, saved, errors, images, pdf, outcome>>

None == <<>>

-----------------------------------------------------------------------------
(* Bounds of the model *)

MaxDim == 22      \* largest image side in the detector's input set
MaxFiles == 3     \* longest directory listing

-----------------------------------------------------------------------------
(* Integer helpers: Python's max, min *)

Max(a, b) == IF a >= b THEN a ELSE b
Min(a, b) == IF a <= b THEN a ELSE b

RECURSIVE SumSeq(_)
SumSeq(s) == IF s = <<>> THEN 0 ELSE Head(s) + SumSeq(Tail(s))

-----------------------------------------------------------------------------
(* Images.  An image is a record [W, H, chan, bg, fg, r1, r2, c1, c2]: a   *)
(* W x H picture of pixel bg with the block rows r1..r2, columns c1..c2    *)
(* (0-based, inclusive) of pixel fg; a pixel is the tuple of its chan      *)
(* channel samples (0..255).                                               *)

Rows(a) == 0 .. (a.H - 1)
Cols(a) == 0 .. (a.W - 1)

\* np.array(im): the H x W (x chan) array of samples
NpArray(i) ==
    [r \in 0 .. (i.H - 1) |->
        [c \in 0 .. (i.W - 1) |->
            IF r >= i.r1 /\ r <= i.r2 /\ c >= i.c1 /\ c <= i.c2
            THEN i.fg ELSE i.bg]]

\* np.mean(img_array, axis=2) for an RGB image; a mean is kept exactly, as
\* the pair of its numerator and denominator: Gray(i).num[r][c] / Gray(i).den
Gray(i) ==
    [H |-> i.H, W |-> i.W, den |-> i.chan,
     num |-> [r \in 0 .. (i.H - 1) |->
                [c \in 0 .. (i.W - 1) |-> SumSeq(NpArray(i)[r][c])]]]

RECURSIVE SumOver(_, _, _)
\* f[lo] + ... + f[hi]
SumOver(f, lo, hi) == IF lo > hi THEN 0 ELSE f[lo] + SumOver(f, lo + 1, hi)

THRESHOLD == 250
PADDING == 10

\* np.mean(img_array, axis=1)[r] < threshold:  sum / (den * W) < threshold
RowBelow(a, r) ==
    SumOver(a.num[r], 0, a.W - 1) < THRESHOLD * a.den * a.W

\* np.mean(img_array, axis=0)[c] < threshold
ColBelow(a, c) ==
    SumOver([r \in Rows(a) |-> a.num[r][c]], 0, a.H - 1) < THRESHOLD * a.den * a.H

SetMin(S) == CHOOSE x \in S : \A y \in S : x <= y
SetMax(S) == CHOOSE x \in S : \A y \in S : x >= y

\* the padded and clamped rectangle of lines 36-48
PadClamp_swapped(a, rows, cols) ==
    <<Max(SetMin(cols) - PADDING, 0),
      Max(SetMin(rows) - PADDING, 0),
      Min(SetMax(cols) + PADDING, a.H),
      Min(SetMax(rows) + PADDING, a.W)>>
PadClamp(a, rows, cols) ==
    <<Max(SetMin(cols) - PADDING, 0),
      Max(SetMin(rows) - PADDING, 0),
      Min(SetMax(cols) + PADDING, a.W),
      Min(SetMax(rows) + PADDING, a.H)>>

\* find_content_bounds(im): None, or the tuple (left, top, right, bottom)
find_content_bounds(i) ==
    LET a == Gray(i)
        rows == {r \in Rows(a) : RowBelow(a, r)}
        cols == {c \in Cols(a) : ColBelow(a, c)}
    IN  IF rows = {} \/ cols = {} THEN None ELSE PadClamp(a, rows, cols)

-----------------------------------------------------------------------------
(* Strings, as sequences of code points *)

a_png == <<97, 46, 112, 110, 103>>      \* "a.png"
b_png == <<98, 46, 112, 110, 103>>      \* "b.png"
C_PNG == <<67, 46, 80, 78, 71>>         \* "C.PNG"
n_txt == <<110, 46, 116, 120, 116>>     \* "n.txt"
dot_png == <<46, 112, 110, 103>>        \* ".png"
cropped_ == <<99, 114, 111, 112, 112, 101, 100, 95>>   \* "cropped_"
q == <<113>>                            \* "q"

\* str.lower()
Lower(s) == [k \in 1 .. Len(s) |-> IF s[k] \in 65 .. 90 THEN s[k] + 32 ELSE s[k]]

\* str.endswith(suffix)
EndsWith(s, suffix) ==
    /\ Len(s) >= Len(suffix)
    /\ SubSeq(s, Len(s) - Len(suffix) + 1, Len(s)) = suffix

RECURSIVE LexLess(_, _)
\* s < t for Python strings: by code point, a proper prefix first
LexLess(s, t) ==
    IF t = <<>> THEN FALSE
    ELSE IF s = <<>> THEN TRUE
    ELSE IF Head(s) # Head(t) THEN Head(s) < Head(t)
    ELSE LexLess(Tail(s), Tail(t))

RECURSIVE Insert(_, _)
Insert(x, s) ==
    IF s = <<>> THEN <<x>>
    ELSE IF LexLess(x, Head(s)) THEN <<x>> \o s
    ELSE <<Head(s)>> \o Insert(x, Tail(s))

RECURSIVE InsertionSort(_)
InsertionSort(s) ==
    IF s = <<>> THEN <<>>
    ELSE Insert(s[Len(s)], InsertionSort(SubSeq(s, 1, Len(s) - 1)))

\* sorted(list of str)
sorted_unsorted(s) == s
sorted(s) == InsertionSort(s)

\* f.lower().endswith(".png")
IsPng(f) == EndsWith(Lower(f), dot_png)

\* seq[:n]
SliceTo(s, n) ==
    IF n >= 0 THEN SubSeq(s, 1, Min(n, Len(s)))
    ELSE SubSeq(s, 1, Max(Len(s) + n, 0))

\* seq[i] raises IndexError unless -len <= i < len
IndexOK(s, i) == i >= 0 - Len(s) /\ i < Len(s)
PyIndex(s, i) == IF i >= 0 THEN s[i + 1] ELSE s[Len(s) + i + 1]

\* os.path.join(output_folder, f"cropped_{filename}"), relative to output_folder
OutputPath(filename) == cropped_ \o filename

-----------------------------------------------------------------------------
(* The input folder.  A file holds [fault, img]: fault "none" is a sound   *)
(* image; "open" makes Image.open raise (unreadable, not an image);        *)
(* "load" opens but raises when the pixels are decoded (truncated data:    *)
(* crop and np.array load the image); "save" makes the write of its        *)
(* cropped output raise.                                                    *)

Page ==
    [W |-> 24, H |-> 12, chan |-> 1, bg |-> <<255>>, fg |-> <<0>>,
     r1 |-> 3, r2 |-> 8, c1 |-> 11, c2 |-> 12]
Blank ==
    [W |-> 8, H |-> 8, chan |-> 1, bg |-> <<255>>, fg |-> <<255>>,
     r1 |-> 0, r2 |-> 0, c1 |-> 0, c2 |-> 0]

Names == {a_png, b_png, C_PNG, n_txt}

Contents ==
    {[fault |-> "none", img |-> Page], [fault |-> "none", img |-> Blank],
     [fault |-> "open", img |-> Page], [fault |-> "load", img |-> Page],
     [fault |-> "save", img |-> Page]}

\* a file the run has not opened yet: what it holds is fixed when the run
\* first opens it, and stays
Unread == [fault |-> "unread", img |-> Blank]

\* what opening file f can find
Holds(f) == IF disk[f] = Unread THEN Contents ELSE {disk[f]}

Listings ==
    {s \in UNION {[1 .. n -> Names] : n \in 0 .. MaxFiles} :
        \A j, k \in 1 .. Len(s) : j # k => s[j] # s[k]}

Range(s) == {s[k] : k \in 1 .. Len(s)}

InRange    == <<2, 1, 20, 10>>
Beyond     == <<2, 1, 40, 50>>     \* right and bottom beyond every image
Inverted   == <<10, 10, 5, 5>>     \* left >= right, top >= bottom
ManualBounds == {None, InRange, Beyond, Inverted}
VerifyIdxs == {None, <<0>>, <<1>>}
Limits == {None, <<0>>, <<2>>, <<-1>>}
Inputs == {<<>>, <<113>>, <<81>>}  \* "", "q", "Q"

\* a rectangle PIL can crop to a non-empty image
BoxOK(b) == b[1] < b[3] /\ b[2] < b[4]

-----------------------------------------------------------------------------
(* process_folder, one action per step of its body *)

Init ==
    /\ im = None
    /\ result = None
    /\ listing \in Listings
    /\ disk = [f \in Range(listing) |-> Unread]
    /\ manual_bounds \in ManualBounds
    /\ verify_idx \in VerifyIdxs
    /\ output_pdf \in BOOLEAN
    /\ limit \in Limits
    /\ pc = "list"
    /\ png_files = <<>>
    /\ first_image = None
    /\ bounds = None
    /\ shown = <<>>
    /\ user_input = None
    /\ attempted = <<>>
    /\ saved = <<>>
    /\ errors = <<>>
    /\ images = <<>>
    /\ pdf = None
    /\ outcome = "running"

\* the function returns, or an exception (named with the line that raises
\* it) leaves it
Leave(how) == pc' = "done" /\ outcome' = how

\* the gate of line 79
GateActive_always == TRUE
GateActive == verify_idx # None

\* the abort test of line 86
IsAbort_cased(s) == s = q
IsAbort(s) == Lower(s) = q

\* if limit: of line 91
LimitGiven == limit # None /\ limit[1] # 0

\* lines 62-65
ListFolder ==
    /\ pc = "list"
    /\ png_files' = sorted(SelectSeq(listing, IsPng))
    /\ IF png_files' = <<>> THEN Leave("no_files")
       ELSE pc' = "open" /\ outcome' = outcome
    /\ UNCHANGED <<im, result, listing, disk, manual_bounds, verify_idx, output_pdf,
                   limit, first_image, bounds, shown, user_input, attempted,
                   saved, errors, images, pdf>>

\* lines 67-69: no handler surrounds the index or the open
OpenReference ==
    /\ pc = "open"
    /\ LET i == IF verify_idx = None THEN 0 ELSE verify_idx[1]
       IN  IF ~IndexOK(png_files, i)
           THEN Leave("IndexError@67") /\ UNCHANGED <<first_image, disk>>
           ELSE \E c \in Holds(PyIndex(png_files, i)) :
                /\ disk' = [disk EXCEPT ![PyIndex(png_files, i)] = c]
                /\ IF c.fault = "open"
                   THEN Leave("OpenError@69") /\ first_image' = first_image
                   ELSE /\ first_image' = <<PyIndex(png_files, i)>>
                        /\ pc' = "bounds"
                        /\ outcome' = outcome
    /\ UNCHANGED <<im, result, listing, manual_bounds, verify_idx, output_pdf,
                   limit, png_files, bounds, shown, user_input, attempted,
                   saved, errors, images, pdf>>

\* lines 70-77
DetermineBounds ==
    /\ pc = "bounds"
    /\ IF Len(manual_bounds) > 0
       THEN /\ bounds' = manual_bounds
            /\ pc' = "gate"
            /\ UNCHANGED <<im, result, outcome>>
       ELSE IF disk[first_image[1]].fault = "load"
       THEN Leave("LoadError@74") /\ UNCHANGED <<im, result, bounds>>
       ELSE /\ im' = <<disk[first_image[1]].img>>
            /\ result' = <<find_content_bounds(disk[first_image[1]].img)>>
            /\ bounds' = result'[1]
            /\ IF bounds' = None THEN Leave("no_bounds")
               ELSE pc' = "gate" /\ outcome' = outcome
    /\ UNCHANGED <<listing, disk, manual_bounds, verify_idx, output_pdf, limit,
                   png_files, first_image, shown, user_input, attempted, saved,
                   errors, images, pdf>>

\* lines 79-84: the preview; crop decodes the reference image.  Whether PIL
\* raises for a rectangle that is not BoxOK depends on its version.
ShowPreview ==
    /\ pc = "gate"
    /\ IF ~GateActive
       THEN pc' = "limit" /\ UNCHANGED <<shown, outcome>>
       ELSE IF disk[first_image[1]].fault = "load"
       THEN Leave("LoadError@80") /\ shown' = shown
       ELSE \/ /\ ~BoxOK(bounds)
               /\ Leave("ValueError@80") /\ shown' = shown
            \/ /\ shown' = Append(shown, [src |-> first_image[1], box |-> bounds])
               /\ pc' = "input"
               /\ outcome' = outcome
    /\ UNCHANGED <<im, result, listing, disk, manual_bounds, verify_idx, output_pdf,
                   limit, png_files, first_image, bounds, user_input, attempted,
                   saved, errors, images, pdf>>

\* lines 85-88: input() returns a line, or is interrupted (Ctrl+C, EOF)
ReadInput ==
    /\ pc = "input"
    /\ \/ \E s \in Inputs :
            /\ user_input' = <<s>>
            /\ IF IsAbort(s) THEN Leave("aborted")
               ELSE pc' = "limit" /\ outcome' = outcome
       \/ Leave("KeyboardInterrupt@85") /\ user_input' = user_input
    /\ UNCHANGED <<im, result, listing, disk, manual_bounds, verify_idx, output_pdf,
                   limit, png_files, first_image, bounds, shown, attempted,
                   saved, errors, images, pdf>>

\* lines 89-98
Truncate ==
    /\ pc = "limit"
    /\ first_image' = None
    /\ png_files' = IF LimitGiven THEN SliceTo(png_files, limit[1]) ELSE png_files
    /\ images' = <<>>
    /\ pc' = "loop"
    /\ UNCHANGED <<im, result, listing, disk, manual_bounds, verify_idx, output_pdf,
                   limit, bounds, shown, user_input, attempted, saved, errors,
                   pdf, outcome>>

\* whether the try body of lines 105-113 raises for a file holding c
ItemRaises(c) == c.fault # "none"

\* lines 100-116: one iteration of the loop
ProcessItem ==
    /\ pc = "loop"
    /\ Len(attempted) < Len(png_files)
    /\ LET filename == png_files[Len(attempted) + 1]
           cropped == [src |-> filename, box |-> bounds]
       IN  \E c \in Holds(filename) :
           /\ disk' = [disk EXCEPT ![filename] = c]
           /\ attempted' = Append(attempted, filename)
           /\ \/ /\ ItemRaises(c) \/ ~BoxOK(bounds)
                 /\ errors' = Append(errors, filename)
                 /\ UNCHANGED <<saved, images>>
              \/ /\ ~ItemRaises(c)
                 /\ saved' = Append(saved, [path |-> OutputPath(filename),
                                             src |-> filename, box |-> bounds])
                 /\ images' = IF output_pdf THEN Append(images, cropped) ELSE images
                 /\ errors' = errors
    /\ UNCHANGED <<im, result, listing, manual_bounds, verify_idx, output_pdf,
                   limit, pc, png_files, first_image, bounds, shown, user_input,
                   pdf, outcome>>

\* lines 118-122, after the loop
Assemble ==
    /\ pc = "loop"
    /\ Len(attempted) = Len(png_files)
    /\ IF ~output_pdf THEN Leave("returned") /\ UNCHANGED <<images, pdf>>
       ELSE IF images = <<>> THEN Leave("IndexError@120") /\ UNCHANGED <<images, pdf>>
       ELSE /\ images' = Tail(images)
            /\ pdf' = <<(<<Head(images)>> \o images')>>
            /\ Leave("returned")
    /\ UNCHANGED <<im, result, listing, disk, manual_bounds, verify_idx, output_pdf,
                   limit, png_files, first_image, bounds, shown, user_input,
                   attempted, saved, errors>>

Next ==
    \/ ListFolder
    \/ OpenReference
    \/ DetermineBounds
    \/ ShowPreview
    \/ ReadInput
    \/ Truncate
    \/ ProcessItem
    \/ Assemble

Spec == Init /\ [][Next]_vars

-----------------------------------------------------------------------------
(* find_content_bounds alone, on a family of images *)

Dims == {1, 2, MaxDim}

\* block edges next to the image's edges and next to where the padding
\* starts and stops being clamped
EdgePos(d) ==
    {x \in 0 .. (d - 1) :
        \/ x = 0
        \/ x = d - 1
        \/ (x >= PADDING - 1 /\ x <= PADDING + 1)
        \/ (x >= d - PADDING - 2 /\ x <= d - PADDING)}

Intervals(d) == {p \in EdgePos(d) \X EdgePos(d) : p[1] <= p[2]}

\* <<background pixel, block pixel>>
PixelPairs ==
    ({<<255>>} \X {<<0>>, <<200>>, <<249>>, <<250>>, <<255>>})
    \cup {<<(<<0>>), (<<255>>)>>}
    \cup ({<<255, 255, 255>>} \X {<<0, 0, 0>>, <<255, 255, 239>>, <<255, 255, 240>>})

TestImages ==
    UNION {
        {[W |-> w, H |-> h, chan |-> Len(p[1]), bg |-> p[1], fg |-> p[2],
          r1 |-> rr[1], r2 |-> rr[2], c1 |-> cc[1], c2 |-> cc[2]] :
            rr \in Intervals(h), cc \in Intervals(w), p \in PixelPairs} :
        w \in Dims, h \in Dims}

DetectInit ==
    /\ im \in {<<i>> : i \in TestImages}
    /\ result = None
    /\ pc = "detect"
    /\ listing = <<>>
    /\ disk = <<>>
    /\ manual_bounds = None
    /\ verify_idx = None
    /\ output_pdf = FALSE
    /\ limit = None
    /\ png_files = <<>>
    /\ first_image = None
    /\ bounds = None
    /\ shown = <<>>
    /\ user_input = None
    /\ attempted = <<>>
    /\ saved = <<>>
    /\ errors = <<>>
    /\ images = <<>>
    /\ pdf = None
    /\ outcome = "running"

Detect ==
    /\ pc = "detect"
    /\ result' = <<find_content_bounds(im[1])>>
    /\ pc' = "detected"
    /\ UNCHANGED <<im, listing, disk, manual_bounds, verify_idx, output_pdf, limit,
                   png_files, first_image, bounds, shown, user_input, attempted,
                   saved, errors, images, pdf, outcome>>

DetectNext == Detect

SpecDetect == DetectInit /\ [][DetectNext]_vars

-----------------------------------------------------------------------------
(* Properties of process_folder, checked under Spec *)

Done == pc = "done"

\* the files of the listing that are PNGs, and how the run found them
PngNames == {f \in Range(listing) : IsPng(f)}
Faulty(f) == disk[f].fault \in {"open", "load", "save"}
SavedFrom(f) == {k \in 1 .. Len(saved) : saved[k].src = f}
ErrorsOf(f) == {k \in 1 .. Len(errors) : errors[k] = f}
GateSeen == shown # <<>> \/ pc = "input" \/ user_input # None
Untouched == attempted = <<>> /\ saved = <<>> /\ errors = <<>> /\ images = <<>> /\ pdf = None

\* C1: fault isolation.  A run given a usable rectangle that is not stopped
\* by the operator, by an empty folder, by a failed detection or by a bad
\* verify_idx returns normally having attempted every item of the batch;
\* every item whose open/crop/write raises has exactly one recorded failure
\* and no output, every other item exactly one output.
C1_FaultIsolation ==
    (/\ Done
     /\ outcome \notin {"no_files", "no_bounds", "aborted", "KeyboardInterrupt@85",
                        "IndexError@67", "ValueError@80"}
     /\ bounds # None => BoxOK(bounds)
     /\ ~output_pdf)
    => /\ outcome = "returned"
       /\ attempted = png_files
       /\ \A f \in Range(png_files) :
            IF Faulty(f)
            THEN Cardinality(ErrorsOf(f)) = 1 /\ SavedFrom(f) = {}
            ELSE Cardinality(SavedFrom(f)) = 1 /\ ErrorsOf(f) = {}

\* C2: once the operator has answered the gate with the abort input ("q" or
\* "Q"), the run is over and no batch item has been opened, cropped, written
\* or assembled; and with the gate active no batch item is processed before
\* the gate's input has been received.
C2_AbortHaltsBeforeBatch ==
    /\ (user_input # None /\ user_input[1] \in {<<113>>, <<81>>})
       => (Done /\ outcome = "aborted" /\ Untouched)
    /\ (verify_idx # None /\ attempted # <<>>) => user_input # None

C2_Witness ==
    /\ outcome = "aborted"
    /\ user_input = <<(<<81>>)>>
    /\ Len(png_files) >= 2
    /\ shown # <<>>

\* C3 as stated: a run given manual_bounds never shows a preview and never
\* waits for operator input.
C3_ManualBoundsSkipGate == manual_bounds # None => ~GateSeen

\* C3 as amended: a run given manual_bounds and verify_idx None never shows
\* a preview and never waits for operator input.
C3_NoVerifyIdxSkipsGate ==
    (manual_bounds # None /\ verify_idx = None) => ~GateSeen

C3_Witness ==
    /\ manual_bounds # None
    /\ verify_idx = None
    /\ outcome = "returned"
    /\ saved # <<>>

\* the override clamped to a W x H image
ClampTo(b, W, H) == <<Max(b[1], 0), Max(b[2], 0), Min(b[3], W), Min(b[4], H)>>
ExtendsBeyond(b, W, H) == b[1] < 0 \/ b[2] < 0 \/ b[3] > W \/ b[4] > H

\* C5: the rectangle applied to an item is the override clamped to that
\* item's dimensions whenever the override extends beyond them, and lies
\* within the image.
C5_OverrideClamped ==
    \A k \in 1 .. Len(saved) :
        LET i == disk[saved[k].src].img
            b == saved[k].box
        IN  (manual_bounds # None /\ ExtendsBeyond(manual_bounds, i.W, i.H))
            => /\ b = ClampTo(manual_bounds, i.W, i.H)
               /\ 0 <= b[1] /\ b[1] < b[3] /\ b[3] <= i.W
               /\ 0 <= b[2] /\ b[2] < b[4] /\ b[4] <= i.H

\* C7: batch items are processed in increasing filename order whatever the
\* order of the listing, and the pages handed to the document writer are
\* exactly the attempted items that were written, in that order, each once.
C7_OrderPreserved ==
    /\ Range(attempted) \subseteq PngNames
    /\ \A j, k \in 1 .. Len(attempted) :
            j < k => LexLess(attempted[j], attempted[k])
    /\ pdf # None =>
        [k \in 1 .. Len(pdf[1]) |-> pdf[1][k].src]
            = SelectSeq(attempted, LAMBDA f : SavedFrom(f) # {})

C7_Witness ==
    /\ pdf # None
    /\ Len(pdf[1]) = 2
    /\ Len(attempted) = 3
    /\ errors = <<attempted[2]>>
    /\ LexLess(listing[2], listing[1])

\* C8: when assembly is requested and every attempted item failed, so that
\* there is no page, the run still returns normally, with no document and
\* the written files as they were.
C8_EmptyAssemblyContained ==
    (/\ Done
     /\ output_pdf
     /\ attempted # <<>>
     /\ Len(errors) = Len(attempted)
     /\ outcome \in {"returned", "IndexError@120"})
    => (outcome = "returned" /\ pdf = None /\ saved = <<>>)

\* C9: a failed detection, an empty batch or an invalid override rectangle
\* ends the run with no batch item opened, cropped, written or recorded.
C9_FailFast ==
    (\/ outcome = "no_bounds"
     \/ PngNames = {}
     \/ (manual_bounds # None /\ ~BoxOK(manual_bounds)))
    => Untouched

\* C10: a run that completes with a limit L >= 0 has attempted exactly the
\* first min(L, N) items of the sorted batch, and all N when no limit is given.
C10_LimitTruncation ==
    (Done /\ outcome = "returned" /\ (limit = None \/ limit[1] >= 0)) =>
        LET N == Cardinality(PngNames)
            n == IF limit = None THEN N ELSE Min(limit[1], N)
        IN  /\ Len(attempted) = n
            /\ limit # None => Len(attempted) <= limit[1]
            /\ \A f \in PngNames :
                 (f \in Range(attempted))
                 <=> Cardinality({g \in PngNames : LexLess(g, f)}) < n

-----------------------------------------------------------------------------
(* Properties of find_content_bounds, checked under SpecDetect *)

\* the samples of a pixel, summed
PixelSum(px) == IF Len(px) = 1 THEN px[1] ELSE px[1] + px[2] + px[3]

\* every pixel of the image has the same intensity
Uniform(i) ==
    \/ PixelSum(i.fg) = PixelSum(i.bg)
    \/ (i.r1 = 0 /\ i.r2 = i.H - 1 /\ i.c1 = 0 /\ i.c2 = i.W - 1)

\* C4: for a uniform image the detector reports failure.
C4_UniformIsFailure ==
    (pc = "detected" /\ Uniform(im[1])) => result[1] = None

\* the block is what the threshold detects: the rows r1..r2 and the columns
\* c1..c2 have a mean below the threshold, and no other row or column has
BlockDetected(i) ==
    LET bw == i.c2 - i.c1 + 1
        bh == i.r2 - i.r1 + 1
    IN  /\ bw * PixelSum(i.fg) + (i.W - bw) * PixelSum(i.bg) < 250 * i.chan * i.W
        /\ bh * PixelSum(i.fg) + (i.H - bh) * PixelSum(i.bg) < 250 * i.chan * i.H
        /\ PixelSum(i.bg) >= 250 * i.chan

\* C6: for content rows r1..r2 and columns c1..c2 the detector returns
\* (max(c1-10,0), max(r1-10,0), min(c2+10,W), min(r2+10,H)), which contains
\* the content and lies within the image.
C6_PaddedClampedBounds ==
    (pc = "detected" /\ BlockDetected(im[1])) =>
        LET i == im[1]
            b == result[1]
        IN  /\ b = <<Max(i.c1 - 10, 0), Max(i.r1 - 10, 0),
                     Min(i.c2 + 10, i.W), Min(i.r2 + 10, i.H)>>
            /\ 0 <= b[1] /\ b[1] <= i.c1 /\ i.c2 < b[3] /\ b[3] <= i.W
            /\ 0 <= b[2] /\ b[2] <= i.r1 /\ i.r2 < b[4] /\ b[4] <= i.H
            /\ b[1] < b[3] /\ b[2] < b[4]

C6_Witness ==
    /\ pc = "detected"
    /\ BlockDetected(im[1])
    /\ im[1].W > im[1].H
    /\ result[1][1] > 0
    /\ result[1][3] < im[1].W
    /\ result[1][2] = 0
    /\ result[1][4] = im[1].H
    /\ im[1].chan = 3

=============================================================================
